---- MODULE Spec2Model ----
(***************************************************************************)
(* Model of app.py, the Streamlit dashboard "Dynamic Sunburst Diagram of   *)
(* 2024 Grants".  The script is re-executed from top to bottom on every    *)
(* user interaction; what survives between two executions is the session   *)
(* state (the two filter selections), the uploaded-file widget and the     *)
(* spreadsheet on disk.  One action of the model is one interaction        *)
(* followed by the complete script run it triggers.                        *)
(*                                                                         *)
(* A DataFrame is a record [columns, rows]: columns is the ordered list of *)
(* column names and rows the ordered list of rows, each row a function     *)
(* from column names to cell values.  A missing cell (NaN) of a row is a   *)
(* column of the frame that is not in the DOMAIN of the row.  DataFrames   *)
(* are objects: the script's memory is a heap of frames and the script's   *)
(* names (sunburst_data, filtered_data) hold references into it, so that   *)
(* an in-place operation is seen through every alias of the object.        *)
(***************************************************************************)
EXTENDS Integers, Sequences, FiniteSets, TLC

VARIABLES file, session, uploaded, lastEvent, view

vars == <<file, session, uploaded, lastEvent, view>>

(***************************************************************************)
(* Bounds                                                                  *)
(***************************************************************************)
MaxRows == 3

(***************************************************************************)
(* Program constants                                                       *)
(***************************************************************************)
SALESFORCE_BASE_URL == "https://hewlett.lightning.force.com/lightning/r/Request__c/"

DEFAULT_FILE_PATH == "default_grants_data.xlsx"

SHEET_NAME == "2024 Grants GMS Export"

ALL == "All"

hierarchy_columns ==
  <<"Top Level Primary Program", "Primary Strategy",
    "Organization: Organization Name", "Project Title", "Request: ID">>

value_column == "Amount"

sunburst_path ==
  <<"Top Level Primary Program", "Primary Strategy",
    "Organization: Organization Name", "Project Title">>

table_columns ==
  <<"Top Level Primary Program", "Primary Strategy",
    "Organization: Organization Name", "Salesforce Link", "Amount">>

(***************************************************************************)
(* Sequence helpers                                                        *)
(***************************************************************************)
Range(s) == {s[i] : i \in 1..Len(s)}

RECURSIVE FilterSeq(_, _)
\* the elements of s at the positions of keep, in order (boolean-mask indexing)
FilterSeq(s, keep) ==
  IF s = <<>> THEN <<>>
  ELSE LET rest == FilterSeq(Tail(s), [i \in 1..(Len(s) - 1) |-> keep[i + 1]])
       IN IF keep[1] THEN <<Head(s)>> \o rest ELSE rest

RECURSIVE Unique(_)
\* Series.unique(): the distinct values in order of first appearance
Unique(s) ==
  IF s = <<>> THEN <<>>
  ELSE LET init == Unique(SubSeq(s, 1, Len(s) - 1))
           last == s[Len(s)]
       IN IF last \in Range(init) THEN init ELSE Append(init, last)

RECURSIVE SumSeq(_)
SumSeq(s) == IF s = <<>> THEN 0 ELSE Head(s) + SumSeq(Tail(s))

RECURSIVE Insert(_, _)
Insert(x, s) ==
  IF s = <<>> THEN <<x>>
  ELSE IF x <= Head(s) THEN <<x>> \o s
  ELSE <<Head(s)>> \o Insert(x, Tail(s))

RECURSIVE SortAsc(_)
SortAsc(s) == IF s = <<>> THEN <<>> ELSE Insert(Head(s), SortAsc(Tail(s)))

(***************************************************************************)
(* DataFrames                                                              *)
(***************************************************************************)
Frame(cols, rows) == [columns |-> cols, rows |-> rows]

\* df[col]: the column as a list of cells (only used on columns without NaN)
Column(df, c) == [i \in 1..Len(df.rows) |-> df.rows[i][c]]

\* pandas isna() of one cell
IsNa(row, c) == c \notin DOMAIN row

\* df[list_of_columns]: a new frame with these columns, in this order
SelectColumns(df, cols) ==
  Frame(cols,
        [i \in 1..Len(df.rows) |->
           [c \in (Range(cols) \cap DOMAIN df.rows[i]) |-> df.rows[i][c]]])

\* df[mask]: a new frame with the rows whose mask entry is True
MaskRows(df, keep) == Frame(df.columns, FilterSeq(df.rows, keep))

\* df.dropna(subset=cols): the rows with no NaN in any of the columns cols
DropNa(df, cols) ==
  MaskRows(df, [i \in 1..Len(df.rows) |->
                  \A c \in Range(cols) : ~IsNa(df.rows[i], c)])

\* df[col] = values: sets (or appends) a column, in place
SetColumn(df, c, values) ==
  Frame(IF c \in Range(df.columns) THEN df.columns ELSE Append(df.columns, c),
        [i \in 1..Len(df.rows) |->
           [k \in (DOMAIN df.rows[i]) \cup {c} |->
              IF k = c THEN values[i] ELSE df.rows[i][k]]])

\* df.drop(columns=[c]): removes a column
DropColumn(df, c) ==
  Frame(FilterSeq(df.columns, [i \in 1..Len(df.columns) |-> df.columns[i] # c]),
        [i \in 1..Len(df.rows) |->
           [k \in (DOMAIN df.rows[i]) \ {c} |-> df.rows[i][k]]])

(***************************************************************************)
(* Numbers.  A statistic is an exact rational [num, den]; the f-string     *)
(* format "${x:,.2f}" rounds it to cents (ties to even), groups the        *)
(* dollars by thousands and prints two decimals.                           *)
(***************************************************************************)
Q(n, d) == [num |-> n, den |-> d]

\* Series.sum(): 0 for an empty series
Sum(amounts) == Q(SumSeq(amounts), 1)

\* Series.median(): middle value, or the mean of the two middle values
Median(amounts) ==
  LET s == SortAsc(amounts)
      n == Len(s)
  IN IF n % 2 = 1 THEN Q(s[(n + 1) \div 2], 1)
     ELSE Q(s[n \div 2] + s[(n \div 2) + 1], 2)

\* Series.mean()
Mean(amounts) == Q(SumSeq(amounts), Len(amounts))

RoundCents(q) ==
  LET n == q.num * 100
      fl == n \div q.den
      twice == 2 * (n % q.den)
  IN IF twice > q.den \/ (twice = q.den /\ fl % 2 = 1) THEN fl + 1 ELSE fl

Digits(n, width) ==
  IF width = 3 /\ n < 10 THEN "00" \o ToString(n)
  ELSE IF (width = 3 /\ n < 100) \/ (width = 2 /\ n < 10) THEN "0" \o ToString(n)
  ELSE ToString(n)

RECURSIVE Grouped(_)
Grouped(n) ==
  IF n < 1000 THEN ToString(n)
  ELSE Grouped(n \div 1000) \o "," \o Digits(n % 1000, 3)

\* f"${x:,.2f}"
Currency(q) ==
  LET cents == RoundCents(q)
  IN "$" \o Grouped(cents \div 100) \o "." \o Digits(cents % 100, 2)

(***************************************************************************)
(* The spreadsheet on disk                                                 *)
(***************************************************************************)
RawColumns == hierarchy_columns \o <<value_column, "Fiscal Year">>

Grant(p, s, o, t, id, a) ==
  [c \in Range(RawColumns) |->
     CASE c = "Top Level Primary Program" -> p
       [] c = "Primary Strategy" -> s
       [] c = "Organization: Organization Name" -> o
       [] c = "Project Title" -> t
       [] c = "Request: ID" -> id
       [] c = "Amount" -> a
       [] OTHER -> "2024"]

\* the same row with an empty cell in column c
Blank(row, c) == [k \in (DOMAIN row) \ {c} |-> row[k]]

G1 == Grant("ProgA", "Strat1", "OrgX", "Proj1", "R1", 100)

G2 == Grant("ProgA", "Strat2", "OrgY", "Proj2", "R2", 300)

G3 == Grant("ProgB", "Strat1", "OrgZ", "Proj3", "R3", 200)

ValidRows == {G1, G2, G3}

InvalidRows ==
  { Grant("ProgA", "Strat1", "OrgX", "Proj5", "R5", 0),
    Grant("ProgB", "Strat2", "OrgY", "Proj6", "R6", -50),
    Blank(G3, "Organization: Organization Name"),
    Blank(G2, "Request: ID"),
    Blank(G1, "Amount") }

RowUniverse == ValidRows \cup InvalidRows

\* the sheets: up to MaxRows rows, no row twice
Tables ==
  UNION { { t \in [1..n -> RowUniverse] :
              \A i, j \in 1..n : i # j => t[i] # t[j] } : n \in 0..MaxRows }

\* what pd.read_excel and the column selection find on disk
Files ==
  { [kind |-> k, sheet |-> Frame(<<>>, <<>>)] :
      k \in {"missing", "unreadable", "no_sheet"} }
  \cup { [kind |-> "workbook", sheet |-> Frame(RawColumns, t)] : t \in Tables }
  \cup { [kind |-> "workbook",
          sheet |-> DropColumn(Frame(RawColumns, <<G1>>), c)] :
           c \in {"Request: ID", "Amount"} }

(***************************************************************************)
(* Script memory: a function from names to values.  "heap" is the list of  *)
(* DataFrame objects; a DataFrame-valued name holds an index into it.      *)
(* "raised" is the message of the exception in flight ("" when none): a    *)
(* statement reached with an exception in flight is skipped, which is how  *)
(* control leaves the try block.  "out" is the list of rendered elements.  *)
(***************************************************************************)
Set(m, name, v) == (name :> v) @@ m

Raise(m, msg) == Set(m, "raised", msg)

Ok(m) == m["raised"] = ""

\* the DataFrame a name refers to
Deref(m, name) == m["heap"][m[name]]

\* name = <a new DataFrame object>
Bind(m, name, df) ==
  Set(Set(m, "heap", Append(m["heap"], df)), name, Len(m["heap"]) + 1)

\* an in-place operation on the object a name refers to
Mutate(m, name, df) ==
  Set(m, "heap", [m["heap"] EXCEPT ![m[name]] = df])

Emit(m, element) == Set(m, "out", Append(m["out"], element))

Memory0(ss) ==
  [n \in {"heap", "out", "raised", "session"} |->
     CASE n = "heap" -> <<>>
       [] n = "out" -> <<>>
       [] n = "raised" -> ""
       [] OTHER -> ss]

(***************************************************************************)
(* Session state and widgets                                               *)
(***************************************************************************)
\* lines 24-27: each key is initialised only when it is absent
InitSessionState(ss) ==
  [k \in (DOMAIN ss) \cup {"selected_program", "selected_strategy"} |->
     IF k \in DOMAIN ss THEN ss[k] ELSE ALL]

\* variant: only the program is reset
reset_filters_ProgramOnly(ss) == ("selected_program" :> ALL) @@ ss

\* lines 30-32
reset_filters(ss) ==
  ("selected_program" :> ALL) @@ ("selected_strategy" :> ALL) @@ ss

\* variant: a keyed value is returned even when it is not among the options
SelectboxValue_Stale(ss, key, options) ==
  IF key \in DOMAIN ss THEN ss[key] ELSE options[1]

\* st.sidebar.selectbox(label, options=..., key=...): returns the keyed
\* session value when it is one of the options; a keyed value that is not
\* among the options of this run is replaced by the default, options[0]
SelectboxValue(ss, key, options) ==
  IF key \in DOMAIN ss /\ ss[key] \in Range(options) THEN ss[key] ELSE options[1]

Selectbox(m, label, key, options, local) ==
  IF ~Ok(m) THEN m
  ELSE LET v == SelectboxValue(m["session"], key, options)
       IN Emit(Set(Set(m, "session", (key :> v) @@ m["session"]), local, v),
               [el |-> "selectbox", label |-> label, options |-> options,
                key |-> key])

(***************************************************************************)
(* Lines 37-48: load and clean                                             *)
(***************************************************************************)
\* line 37: pd.read_excel(DEFAULT_FILE_PATH, sheet_name=...)
ReadExcel(m, f) ==
  CASE f.kind = "missing" ->
         Raise(m, "[Errno 2] No such file or directory: '" \o DEFAULT_FILE_PATH \o "'")
    [] f.kind = "unreadable" -> Raise(m, "File is not a zip file")
    [] f.kind = "no_sheet" ->
         Raise(m, "Worksheet named '" \o SHEET_NAME \o "' not found")
    [] OTHER -> Bind(m, "default_df", f.sheet)

\* line 44: sunburst_data = default_df[hierarchy_columns + [value_column]].copy()
SelectRelevantColumns(m) ==
  IF ~Ok(m) THEN m
  ELSE LET wanted == hierarchy_columns \o <<value_column>>
           df == Deref(m, "default_df")
       IN IF \E c \in Range(wanted) : c \notin Range(df.columns)
          THEN Raise(m, "columns not in index")
          ELSE LET sel == Bind(m, "sunburst_data", SelectColumns(df, wanted))
               IN Bind(sel, "sunburst_data", Deref(sel, "sunburst_data"))

\* variant: zero amounts are kept
PositiveAmount_NonNegative(df) ==
  [i \in 1..Len(df.rows) |-> df.rows[i][value_column] >= 0]

\* the mask of line 48: sunburst_data[value_column] > 0
PositiveAmount(df) == [i \in 1..Len(df.rows) |-> df.rows[i][value_column] > 0]

\* lines 47-48: dropna in place, then keep the rows with Amount > 0
CleanData(m) ==
  IF ~Ok(m) THEN m
  ELSE LET dropped ==
             Mutate(m, "sunburst_data",
                    DropNa(Deref(m, "sunburst_data"),
                           hierarchy_columns \o <<value_column>>))
           df == Deref(dropped, "sunburst_data")
       IN Bind(dropped, "sunburst_data", MaskRows(df, PositiveAmount(df)))

(***************************************************************************)
(* Lines 55-74: sidebar                                                    *)
(***************************************************************************)
\* line 59: ["All"] + list(sunburst_data["Top Level Primary Program"].unique())
ProgramOptions(df) == <<ALL>> \o Unique(Column(df, "Top Level Primary Program"))

\* the mask df[column] == value
Equals(df, c, v) == [i \in 1..Len(df.rows) |-> df.rows[i][c] = v]

\* variant: the strategies are not narrowed to the selected program
Strategies_Unconstrained(df, selected_program) ==
  Unique(Column(df, "Primary Strategy"))

\* lines 63-66
Strategies(df, selected_program) ==
  IF selected_program # ALL
  THEN Unique(Column(MaskRows(df, Equals(df, "Top Level Primary Program",
                                         selected_program)),
                     "Primary Strategy"))
  ELSE Unique(Column(df, "Primary Strategy"))

\* line 70
StrategyOptions(df, selected_program) ==
  <<ALL>> \o Strategies(df, selected_program)

\* lines 55-74
Sidebar(m) ==
  LET df == Deref(m, "sunburst_data")
      m1 == Emit(m, [el |-> "sidebar.header", label |-> "Filter Options"])
      m2 == Selectbox(m1, "Select Top Level Program:", "selected_program",
                      ProgramOptions(df), "selected_program")
      m3 == Selectbox(m2, "Select Primary Strategy:", "selected_strategy",
                      StrategyOptions(df, m2["selected_program"]),
                      "selected_strategy")
  IN Emit(m3, [el |-> "sidebar.button", label |-> "Reset Filters"])

(***************************************************************************)
(* Lines 78-113: filter, metrics, link                                     *)
(***************************************************************************)
\* variant: filtered_data = sunburst_data, without the copy
CopySunburstData_Alias(m) == Set(m, "filtered_data", m["sunburst_data"])

\* line 78: filtered_data = sunburst_data.copy()
CopySunburstData(m) == Bind(m, "filtered_data", Deref(m, "sunburst_data"))

\* lines 81-82
ProgramFilter(m) ==
  IF m["selected_program"] # ALL
  THEN LET df == Deref(m, "filtered_data")
       IN Bind(m, "filtered_data",
               MaskRows(df, Equals(df, "Top Level Primary Program",
                                   m["selected_program"])))
  ELSE m

\* variant: the strategy mask is applied to sunburst_data
StrategyFilter_FromSource(m) ==
  IF m["selected_strategy"] # ALL
  THEN LET df == Deref(m, "sunburst_data")
       IN Bind(m, "filtered_data",
               MaskRows(df, Equals(df, "Primary Strategy",
                                   m["selected_strategy"])))
  ELSE m

\* lines 85-86
StrategyFilter(m) ==
  IF m["selected_strategy"] # ALL
  THEN LET df == Deref(m, "filtered_data")
       IN Bind(m, "filtered_data",
               MaskRows(df, Equals(df, "Primary Strategy",
                                   m["selected_strategy"])))
  ELSE m

\* line 89: the Amount column is numeric already (line 48 compared it with
\* 0), so pd.to_numeric returns the same numbers; the assignment is in place
ToNumeric(m) ==
  LET df == Deref(m, "filtered_data")
  IN Mutate(m, "filtered_data", SetColumn(df, "Amount", Column(df, "Amount")))

\* lines 78-89
ApplyFilters(m) == ToNumeric(StrategyFilter(ProgramFilter(CopySunburstData(m))))

\* Python's None; a present value v is <<v>>
None == <<>>

\* lines 99-104: if not filtered_data.empty
MedianFiltered(df) ==
  IF df.rows # <<>> THEN <<Median(Column(df, "Amount"))>> ELSE None

MeanFiltered(df) ==
  IF df.rows # <<>> THEN <<Mean(Column(df, "Amount"))>> ELSE None

\* lines 92-104
Metrics(m) ==
  LET fd == Deref(m, "filtered_data")
      sd == Deref(m, "sunburst_data")
  IN Set(Set(Set(Set(Set(Set(m,
       "total_records", Len(fd.rows)),
       "total_amount", Sum(Column(fd, "Amount"))),
       "median_all", Median(Column(sd, "Amount"))),
       "mean_all", Mean(Column(sd, "Amount"))),
       "median_filtered", MedianFiltered(fd)),
       "mean_filtered", MeanFiltered(fd))

\* line 108: the lambda applied to one row
SalesforceLink(row) ==
  "<a href=\"" \o SALESFORCE_BASE_URL \o row["Request: ID"]
     \o "/view\" target=\"_blank\">" \o row["Project Title"] \o "</a>"

\* lines 107-110: a row without the columns the lambda reads is a KeyError
CreateSalesforceLink(m) ==
  IF ~Ok(m) THEN m
  ELSE LET df == Deref(m, "filtered_data")
       IN IF \E c \in {"Request: ID", "Project Title"} : c \notin Range(df.columns)
          THEN Raise(m, "'Request: ID'")
          ELSE Mutate(m, "filtered_data",
                      SetColumn(df, "Salesforce Link",
                                [i \in 1..Len(df.rows) |->
                                   SalesforceLink(df.rows[i])]))

\* line 113: filtered_data.drop(columns=["Request: ID"], inplace=True)
DropRequestId(m) ==
  IF ~Ok(m) THEN m
  ELSE LET df == Deref(m, "filtered_data")
       IN IF "Request: ID" \notin Range(df.columns)
          THEN Raise(m, "\"['Request: ID'] not found in axis\"")
          ELSE Mutate(m, "filtered_data", DropColumn(df, "Request: ID"))

\* variant: the identifier is dropped before the link is generated
LinkThenDrop_DropFirst(m) == CreateSalesforceLink(DropRequestId(m))

\* lines 106-113: the link is generated, then the identifier is dropped
LinkThenDrop(m) == DropRequestId(CreateSalesforceLink(m))

(***************************************************************************)
(* Lines 115-193: chart, metric widgets, table, CSV                        *)
(***************************************************************************)
\* lines 116-125: one leaf per record, keyed by the path, weighted by Amount
SunburstFigure(df) ==
  [title |-> "Grants Distribution Hierarchy (2024)",
   leaves |-> [i \in 1..Len(df.rows) |->
                 [path |-> [k \in 1..Len(sunburst_path) |->
                              df.rows[i][sunburst_path[k]]],
                  value |-> df.rows[i][value_column]]]]

\* lines 116-128
Chart(m) ==
  IF ~Ok(m) THEN m
  ELSE Emit(m, [el |-> "plotly_chart",
                fig |-> SunburstFigure(Deref(m, "filtered_data"))])

Metric(label, value) == [el |-> "metric", label |-> label, value |-> value]

Divider == [el |-> "markdown", body |-> "---"]

\* variant: an absent statistic is shown as zero
FilteredMetric_Zero(label, stat) ==
  IF stat # None THEN Metric(label, Currency(stat[1]))
  ELSE Metric(label, Currency(Q(0, 1)))

\* lines 147-150 and 159-162
FilteredMetric(label, stat) ==
  IF stat # None THEN Metric(label, Currency(stat[1]))
  ELSE Metric(label, "No Data")

\* lines 131-162
MetricWidgets(m) ==
  IF ~Ok(m) THEN m
  ELSE LET m1 == Emit(m, Divider)
           m2 == Emit(m1, Metric("Total Records", ToString(m["total_records"])))
           m3 == Emit(m2, Metric("Total Amount", Currency(m["total_amount"])))
           m4 == Emit(m3, Divider)
           m5 == Emit(m4, Metric("Median (All Grants)", Currency(m["median_all"])))
           m6 == Emit(m5, FilteredMetric("Median (Filtered)", m["median_filtered"]))
           m7 == Emit(m6, Divider)
           m8 == Emit(m7, Metric("Mean (All Grants)", Currency(m["mean_all"])))
       IN Emit(m8, FilteredMetric("Mean (Filtered)", m["mean_filtered"]))

\* DataFrame.to_html(escape=False, index=False) and to_csv(index=False):
\* a header of column names and one line of cells per row, in column order
Tabular(df) ==
  [header |-> df.columns,
   body |-> [i \in 1..Len(df.rows) |->
               [k \in 1..Len(df.columns) |-> df.rows[i][df.columns[k]]]]]

\* line 166: filtered_data = filtered_data[table_columns]
ReorderColumns(m) ==
  IF ~Ok(m) THEN m
  ELSE LET df == Deref(m, "filtered_data")
       IN IF \E c \in Range(table_columns) : c \notin Range(df.columns)
          THEN Raise(m, "columns not in index")
          ELSE Bind(m, "filtered_data", SelectColumns(df, table_columns))

\* line 169
FormatAmount(m) ==
  IF ~Ok(m) THEN m
  ELSE LET df == Deref(m, "filtered_data")
       IN Mutate(m, "filtered_data",
                 SetColumn(df, "Amount",
                           [i \in 1..Len(df.rows) |->
                              Currency(Q(df.rows[i]["Amount"], 1))]))

RenderTable(m) ==
  Emit(m, [el |-> "table", html |-> Tabular(Deref(m, "filtered_data"))])

\* lines 171-193
TableAndDownload(m) ==
  IF ~Ok(m) THEN m
  ELSE LET m1 == Emit(m, [el |-> "subheader", body |-> "Filtered Data Table"])
           m2 == RenderTable(m1)
           m3 == Emit(m2, [el |-> "download_button",
                           label |-> "Download Filtered Data as CSV",
                           file_name |-> "filtered_data.csv",
                           data |-> Tabular(Deref(m2, "filtered_data"))])
       IN RenderTable(m3)

(***************************************************************************)
(* The script                                                              *)
(***************************************************************************)
\* variant: the exception is caught and not shown
Except_Silent(m) == Set(m, "raised", "")

\* lines 194-195: the exception is caught and shown
Except(m) ==
  IF Ok(m) THEN m
  ELSE Set(Emit(m, [el |-> "error",
                    body |-> "Error loading default data: " \o m["raised"]]),
           "raised", "")

\* lines 54-193: the else branch of the empty check.  "filtered" records
\* the value of filtered_data after line 86
RenderData(m) ==
  LET f == ApplyFilters(Sidebar(m))
      g == Set(f, "filtered", Deref(f, "filtered_data"))
  IN TableAndDownload(FormatAmount(ReorderColumns(
       MetricWidgets(Chart(LinkThenDrop(Metrics(g)))))))

\* lines 36-195.  "cleaned" records the value of sunburst_data at line 50
DefaultData(m, f) ==
  LET loaded == CleanData(SelectRelevantColumns(ReadExcel(m, f)))
      c == Set(loaded, "cleaned", Deref(loaded, "sunburst_data"))
  IN IF ~Ok(loaded) THEN Except(loaded)
     ELSE IF c["cleaned"].rows = <<>>
     THEN Emit(c, [el |-> "warning",
                   body |-> "No default data available to display. Please upload a dataset."])
     ELSE Except(RenderData(c))

\* lines 198-201
Uploader(m, up) ==
  LET m1 == Emit(m, [el |-> "file_uploader",
                     label |-> "Upload the Grants Excel File"])
  IN IF up
     THEN Emit(m1, [el |-> "info",
                    body |-> "Custom data handling not fully implemented here. Follow similar steps as above for uploaded data."])
     ELSE m1

\* one execution of app.py, top to bottom
Script(f, ss, up) ==
  LET m0 == Emit(Memory0(InitSessionState(ss)),
                 [el |-> "title",
                  body |-> "Dynamic Sunburst Diagram of 2024 Grants"])
  IN Uploader(DefaultData(m0, f), up)

(***************************************************************************)
(* What the last run put on the page                                       *)
(***************************************************************************)
Elements(kind) ==
  FilterSeq(view["out"], [i \in 1..Len(view["out"]) |-> view["out"][i].el = kind])

Shown(kind) == Elements(kind) # <<>>

\* the options of the selectbox with this key, <<>> when it is not shown
Offered(key) ==
  LET boxes == Elements("selectbox")
      mine == FilterSeq(boxes, [i \in 1..Len(boxes) |-> boxes[i].key = key])
  IN IF mine = <<>> THEN <<>> ELSE mine[1].options

MetricValue(label) ==
  LET ms == Elements("metric")
      mine == FilterSeq(ms, [i \in 1..Len(ms) |-> ms[i].label = label])
  IN mine[1].value

(***************************************************************************)
(* Actions: an interaction and the script run it triggers                  *)
(***************************************************************************)
Run(ss, up, event) ==
  LET m == Script(file, ss, up)
  IN /\ view' = m
     /\ session' = m["session"]
     /\ uploaded' = up
     /\ lastEvent' = event
     /\ UNCHANGED file

Init ==
  /\ file \in Files
  /\ session = <<>>
  /\ uploaded = FALSE
  /\ lastEvent = "init"
  /\ view = Memory0(<<>>)

\* the browser opens the page: first run of a new session
Start ==
  /\ lastEvent = "init"
  /\ Run(session, uploaded, "start")

\* a rerun that changes no widget (for instance the download button)
Rerun ==
  /\ lastEvent # "init"
  /\ Run(session, uploaded, "rerun")

\* the user picks one of the offered programs
SelectProgram ==
  \E p \in Range(Offered("selected_program")) :
    Run(("selected_program" :> p) @@ session, uploaded, "rerun")

\* the user picks one of the offered strategies
SelectStrategy ==
  \E s \in Range(Offered("selected_strategy")) :
    Run(("selected_strategy" :> s) @@ session, uploaded, "rerun")

\* line 74: the button runs reset_filters, then the script reruns
ClickReset ==
  /\ Shown("sidebar.button")
  /\ Run(reset_filters(session), uploaded, "reset")

\* the user puts a file in the uploader, or removes it
UploadFile ==
  /\ lastEvent # "init"
  /\ ~uploaded
  /\ Run(session, TRUE, "rerun")

ClearUpload ==
  /\ uploaded
  /\ Run(session, FALSE, "rerun")

Next ==
  \/ Start
  \/ Rerun
  \/ SelectProgram
  \/ SelectStrategy
  \/ ClickReset
  \/ UploadFile
  \/ ClearUpload

Spec == Init /\ [][Next]_vars

(***************************************************************************)
(* The pipeline as a function of (dataset, selection): lines 78-104 and    *)
(* 131-162 applied to every FilterSelection over the values of the file,   *)
(* offered by the sidebar or not.                                          *)
(***************************************************************************)
Selections ==
  [selected_program : {ALL, "ProgA", "ProgB"},
   selected_strategy : {ALL, "Strat1", "Strat2"}]

PipelineInit ==
  /\ file \in {f \in Files : f.kind = "workbook"}
  /\ session \in Selections
  /\ uploaded = FALSE
  /\ lastEvent = "init"
  /\ view = Memory0(session)

ApplyPipeline ==
  /\ lastEvent = "init"
  /\ LET loaded == CleanData(SelectRelevantColumns(ReadExcel(Memory0(session), file)))
         m == Set(Set(Set(loaded, "cleaned", Deref(loaded, "sunburst_data")),
                      "selected_program", session.selected_program),
                  "selected_strategy", session.selected_strategy)
         f == ApplyFilters(m)
     IN /\ Ok(loaded)
        /\ Deref(loaded, "sunburst_data").rows # <<>>
        /\ view' = MetricWidgets(Metrics(Set(f, "filtered", Deref(f, "filtered_data"))))
  /\ lastEvent' = "pipeline"
  /\ UNCHANGED <<file, session, uploaded>>

PipelineNext == ApplyPipeline

PipelineSpec == PipelineInit /\ [][PipelineNext]_vars

(***************************************************************************)
(* Vocabulary of the properties                                            *)
(***************************************************************************)
Loaded == "cleaned" \in DOMAIN view

RendersData == Loaded /\ view["cleaned"].rows # <<>>

Wanted == hierarchy_columns \o <<value_column>>

AllAll == session["selected_program"] = ALL /\ session["selected_strategy"] = ALL

Program(r) == r["Top Level Primary Program"]

Strategy(r) == r["Primary Strategy"]

Matches(r) ==
  /\ session["selected_program"] # ALL => Program(r) = session["selected_program"]
  /\ session["selected_strategy"] # ALL => Strategy(r) = session["selected_strategy"]

\* the cleaning step applied to a frame
CleanOf(df) ==
  Deref(CleanData(Bind(Memory0(<<>>), "sunburst_data", df)), "sunburst_data")

\* the filter step applied to a frame under the current selection
FilterOf(df) ==
  LET m == Set(Set(Bind(Memory0(<<>>), "sunburst_data", df),
                   "selected_program", session["selected_program"]),
               "selected_strategy", session["selected_strategy"])
  IN Deref(ApplyFilters(m), "filtered_data")

Amounts(df) == Column(df, "Amount")

(***************************************************************************)
(* C1                                                                      *)
(***************************************************************************)
RawRows == SelectColumns(file.sheet, Wanted).rows

MissingHierarchyField(r) == \E c \in Range(sunburst_path) : IsNa(r, c)

NonPositiveAmount(r) == ~IsNa(r, value_column) /\ r[value_column] <= 0

KeptAsClaimed(r) == ~(MissingHierarchyField(r) \/ NonPositiveAmount(r))

Complete(r) == \A c \in Range(Wanted) : ~IsNa(r, c)

KeptByCode(r) == Complete(r) /\ r[value_column] > 0

\* C1 as stated: cleaning removes exactly the rows with a missing program,
\* strategy, organization name or project title, or with an amount <= 0,
\* keeps every other row unchanged, and is idempotent.
C1_CleaningAsClaimed ==
  Loaded =>
    /\ view["cleaned"].rows = SelectSeq(RawRows, KeptAsClaimed)
    /\ CleanOf(view["cleaned"]) = view["cleaned"]

\* C1 amended: cleaning removes exactly the rows with a missing program,
\* strategy, organization name, project title, request identifier or amount,
\* or with an amount <= 0; it keeps every other row unchanged and in order,
\* and cleaning the cleaned dataset again changes nothing.
C1_Cleaning ==
  Loaded =>
    /\ view["cleaned"].columns = Wanted
    /\ view["cleaned"].rows = SelectSeq(RawRows, KeptByCode)
    /\ CleanOf(view["cleaned"]) = view["cleaned"]

C1_Witness ==
  /\ Loaded
  /\ view["cleaned"].rows # <<>>
  /\ \E i \in 1..Len(RawRows) : IsNa(RawRows[i], "Organization: Organization Name")
  /\ \E i \in 1..Len(RawRows) : Complete(RawRows[i]) /\ RawRows[i][value_column] = 0
  /\ Len(view["cleaned"].rows) + 2 = Len(RawRows)

(***************************************************************************)
(* C2                                                                      *)
(***************************************************************************)
StrategiesOf(p) ==
  { Strategy(view["cleaned"].rows[i]) :
      i \in { j \in 1..Len(view["cleaned"].rows) :
                p = ALL \/ Program(view["cleaned"].rows[j]) = p } }

\* C2: the strategy options offered besides "All" are exactly the distinct
\* strategies of the cleaned records of the selected program, or of the
\* whole cleaned dataset when the selected program is "All".
C2_StrategyOptions ==
  RendersData =>
    LET options == Offered("selected_strategy")
    IN /\ options # <<>>
       /\ Head(options) = ALL
       /\ Range(Tail(options)) = StrategiesOf(session["selected_program"])
       /\ Len(Tail(options)) = Cardinality(StrategiesOf(session["selected_program"]))

C2_Witness ==
  /\ RendersData
  /\ session["selected_program"] = "ProgB"
  /\ Range(Tail(Offered("selected_strategy"))) = {"Strat1"}
  /\ StrategiesOf(ALL) = {"Strat1", "Strat2"}

(***************************************************************************)
(* C3                                                                      *)
(***************************************************************************)
\* C3: the filtered dataset holds exactly the cleaned records whose program
\* equals the selected program (unless "All") and whose strategy equals the
\* selected strategy (unless "All"); ("All","All") yields the cleaned
\* records; filtering the filtered result again changes nothing; on the
\* three example records, program ProgA yields the first two, with total
\* 400, median 200 and mean 200.
C3_Filter ==
  RendersData =>
    /\ view["filtered"].columns = view["cleaned"].columns
    /\ view["filtered"].rows = SelectSeq(view["cleaned"].rows, Matches)
    /\ AllAll => view["filtered"] = view["cleaned"]
    /\ FilterOf(view["filtered"]) = view["filtered"]
    /\ ( /\ file.sheet.rows = <<G1, G2, G3>>
         /\ session["selected_program"] = "ProgA"
         /\ session["selected_strategy"] = ALL )
       => /\ view["filtered"].rows = SubSeq(view["cleaned"].rows, 1, 2)
          /\ MetricValue("Total Amount") = "$400.00"
          /\ MetricValue("Median (Filtered)") = "$200.00"
          /\ MetricValue("Mean (Filtered)") = "$200.00"

C3_Witness ==
  /\ RendersData
  /\ file.sheet.rows = <<G1, G2, G3>>
  /\ session["selected_program"] = "ProgA"
  /\ session["selected_strategy"] = ALL
  /\ Len(view["filtered"].rows) = 2

C5_Reset ==
  /\ [](lastEvent \in {"start", "reset"} => AllAll)
  /\ [][(Rerun \/ UploadFile \/ ClearUpload) => session' = session]_vars

C5_Witness ==
  /\ lastEvent = "reset"
  /\ AllAll
  /\ Shown("sidebar.button")
  /\ Len(Offered("selected_strategy")) = 3

(***************************************************************************)
(* C6                                                                      *)
(***************************************************************************)
LoadFails ==
  \/ file.kind # "workbook"
  \/ \E c \in Range(Wanted) : c \notin Range(file.sheet.columns)

Cause ==
  CASE file.kind = "missing" ->
         "[Errno 2] No such file or directory: 'default_grants_data.xlsx'"
    [] file.kind = "unreadable" -> "File is not a zip file"
    [] file.kind = "no_sheet" -> "Worksheet named '2024 Grants GMS Export' not found"
    [] OTHER -> "columns not in index"

\* C6: a failed load does not end the run: the page shows one error message
\* with the cause, no filter, chart, statistic or table, and then the file
\* uploader.
C6_LoadError ==
  (LoadFails /\ lastEvent # "init") =>
    /\ Len(Elements("error")) = 1
    /\ Elements("error")[1].body = "Error loading default data: " \o Cause
    /\ \A k \in {"selectbox", "sidebar.button", "plotly_chart", "metric",
                 "table", "download_button", "warning"} : ~Shown(k)
    /\ Shown("file_uploader")
    /\ \E i \in 1..Len(view["out"]) :
         /\ view["out"][i].el = "error"
         /\ view["out"][i + 1].el = "file_uploader"
    /\ view["raised"] = ""

C6_Witness ==
  /\ file.kind = "no_sheet"
  /\ Shown("error")
  /\ Shown("file_uploader")
  /\ uploaded
  /\ Shown("info")

(***************************************************************************)
(* C7                                                                      *)
(***************************************************************************)
\* C7: the run leaves the cleaned dataset as it was before filtering; the
\* all-grants median and mean are those of the whole cleaned dataset, and
\* count, total, filtered median and filtered mean those of the filtered
\* dataset.
C7_SourceUnchanged ==
  RendersData =>
    /\ Deref(view, "sunburst_data").columns = view["cleaned"].columns
    /\ Deref(view, "sunburst_data").rows = view["cleaned"].rows
    /\ MetricValue("Median (All Grants)") = Currency(Median(Amounts(view["cleaned"])))
    /\ MetricValue("Mean (All Grants)") = Currency(Mean(Amounts(view["cleaned"])))
    /\ MetricValue("Total Records") = ToString(Len(view["filtered"].rows))
    /\ MetricValue("Total Amount") = Currency(Sum(Amounts(view["filtered"])))
    /\ MetricValue("Median (Filtered)") = Currency(Median(Amounts(view["filtered"])))
    /\ MetricValue("Mean (Filtered)") = Currency(Mean(Amounts(view["filtered"])))

C7_Witness ==
  /\ RendersData
  /\ Shown("table")
  /\ session["selected_program"] = "ProgA"
  /\ Len(view["filtered"].rows) < Len(view["cleaned"].rows)
  /\ MetricValue("Median (All Grants)") # MetricValue("Median (Filtered)")

(***************************************************************************)
(* C8                                                                      *)
(***************************************************************************)
ExpectedLine(r) ==
  << Program(r), Strategy(r), r["Organization: Organization Name"],
     "<a href=\"https://hewlett.lightning.force.com/lightning/r/Request__c/"
        \o r["Request: ID"] \o "/view\" target=\"_blank\">"
        \o r["Project Title"] \o "</a>",
     Currency(Q(r["Amount"], 1)) >>

ExpectedTabular ==
  [header |-> <<"Top Level Primary Program", "Primary Strategy",
                "Organization: Organization Name", "Salesforce Link", "Amount">>,
   body |-> [i \in 1..Len(view["filtered"].rows) |->
               ExpectedLine(view["filtered"].rows[i])]]

\* C8: in every run that renders data the link of each filtered record is
\* built from its request identifier before the identifier column is
\* dropped, and the table and the CSV are produced after the drop: both have
\* the columns program, strategy, organization, link, amount, in that
\* order, one line per filtered record, and no request-identifier column.
C8_LinkThenDrop ==
  RendersData =>
    /\ ~Shown("error")
    /\ Shown("table")
    /\ \A i \in 1..Len(Elements("table")) :
         Elements("table")[i].html = ExpectedTabular
    /\ Len(Elements("download_button")) = 1
    /\ Elements("download_button")[1].data = ExpectedTabular
    /\ "Request: ID" \notin Range(Deref(view, "filtered_data").columns)

C8_Witness ==
  /\ RendersData
  /\ Shown("download_button")
  /\ Len(Elements("download_button")[1].data.body) = 2
  /\ Elements("download_button")[1].data.body[1][4]
       = "<a href=\"https://hewlett.lightning.force.com/lightning/r/Request__c/R3/view\" target=\"_blank\">Proj3</a>"

(***************************************************************************)
(* C9                                                                      *)
(***************************************************************************)
\* C9: in every run that renders data the filtered data table is rendered
\* exactly once.
C9_TableOnce == RendersData => Len(Elements("table")) = 1

(***************************************************************************)
(* C10                                                                     *)
(***************************************************************************)
SomeRecord(p, s) ==
  \E i \in 1..Len(view["cleaned"].rows) :
     /\ p # ALL => Program(view["cleaned"].rows[i]) = p
     /\ s # ALL => Strategy(view["cleaned"].rows[i]) = s

\* C10: with a non-empty cleaned dataset every offered combination has a
\* record, the selection of every run is an offered combination, so the
\* filtered dataset is never empty and "No Data" is never shown; with an
\* empty cleaned dataset the page shows a warning and no filter, chart,
\* statistic or table.
C10_OfferedIsPossible ==
  /\ RendersData =>
       /\ \A p \in Range(Offered("selected_program")) :
            \A s \in Range(StrategyOptions(view["cleaned"], p)) : SomeRecord(p, s)
       /\ session["selected_program"] \in Range(Offered("selected_program"))
       /\ session["selected_strategy"] \in Range(Offered("selected_strategy"))
       /\ view["filtered"].rows # <<>>
       /\ MetricValue("Median (Filtered)") # "No Data"
       /\ MetricValue("Mean (Filtered)") # "No Data"
  /\ (Loaded /\ view["cleaned"].rows = <<>>) =>
       /\ Len(Elements("warning")) = 1
       /\ \A k \in {"selectbox", "sidebar.button", "plotly_chart", "metric",
                    "table", "download_button", "error"} : ~Shown(k)

C10_Witness ==
  /\ RendersData
  /\ lastEvent = "rerun"
  /\ session["selected_program"] = "ProgB"
  /\ session["selected_strategy"] = ALL
  /\ "Strat2" \in StrategiesOf(ALL)
  /\ "Strat2" \notin Range(Offered("selected_strategy"))

C10_WitnessEmpty ==
  /\ Loaded
  /\ file.sheet.rows # <<>>
  /\ view["cleaned"].rows = <<>>
  /\ Shown("warning")

====
